---- MODULE Spec2Model ----
(***************************************************************************)
(* Model of src/main.py: the PDF image extractor (extract_images_from_pdf) *)
(* and its Cloud Storage trigger (extract_images_from_pdf_gcs_trigger).    *)
(*                                                                         *)
(* Object names are sequences of one-character strings, so that            *)
(* str.lower, str.endswith, str.startswith, str.strip, os.path.basename,   *)
(* os.path.splitext and the f-string formatting of the output name are     *)
(* computed character by character.  Ratios are percentages (0.15 is 15),  *)
(* page coordinates are integers, and a comparison y <= H * r is computed  *)
(* exactly as 100 * y <= H * rPct.                                         *)
(***************************************************************************)
EXTENDS Integers, Sequences, FiniteSets, TLC

VARIABLES
    pc,                     \* position in the trigger / extractor code
    pending,                \* object-creation events not yet dispatched
    event,                  \* the event the running invocation handles
    pdf_gcs_name,           \* extractor argument
    header_ratio,           \* extractor argument, after validation (percent)
    footer_ratio,           \* extractor argument, after validation (percent)
    doc,                    \* document handle: "none", "open", "closed"
    page_count,             \* pdf_document.page_count
    page_num,               \* loop variable of line 50
    page_height,            \* page.rect.height
    image_list,             \* xrefs of page.get_images(full=True)
    image_index,            \* loop position of line 69
    processed_xrefs,        \* per-page set of line 67
    xref,                   \* img_info[0] of the current iteration
    image_rects,            \* list of <<y0, y1>> of the current iteration
    image_count,            \* running counter of line 43
    skipped_header_footer,  \* counter of line 44
    sink,                   \* objects written to the output bucket, in order
    err,                    \* document-level handler taken (lines 149-153)
    last                    \* what the last step did

vars == <<pc, pending, event, pdf_gcs_name, header_ratio, footer_ratio,
          doc, page_count, page_num, page_height, image_list, image_index,
          processed_xrefs, xref, image_rects, image_count,
          skipped_header_footer, sink, err, last>>

----------------------------------------------------------------------------
(* Bounds of the model *)

MaxPages == 2
MaxImgs == 2
MaxRects == 2

----------------------------------------------------------------------------
(* Configuration, lines 9-17 *)

OUTPUT_BUCKET_NAME == "sbi-image-sample"

OUTPUT_IMAGE_DIR ==
    <<"e","x","t","r","a","c","t","e","d","-","p","d","f","-",
      "i","m","a","g","e","s">>

HEADER_RATIO == 15

FOOTER_RATIO == 15

DEFAULT_RATIO == 10

----------------------------------------------------------------------------
(* Strings *)

\* str.lower on the characters the model uses
LowerChar(c) ==
    CASE c = "P" -> "p"
      [] c = "D" -> "d"
      [] c = "F" -> "f"
      [] c = "J" -> "j"
      [] c = "G" -> "g"
      [] OTHER -> c

Lower(s) == [i \in 1..Len(s) |-> LowerChar(s[i])]

EndsWith(s, suffix) ==
    /\ Len(suffix) <= Len(s)
    /\ SubSeq(s, Len(s) - Len(suffix) + 1, Len(s)) = suffix

StartsWith(s, prefix) ==
    /\ Len(prefix) <= Len(s)
    /\ SubSeq(s, 1, Len(prefix)) = prefix

\* str.strip('/')
RECURSIVE LStrip(_)
LStrip(s) == IF s # <<>> /\ Head(s) = "/" THEN LStrip(Tail(s)) ELSE s

RECURSIVE RStrip(_)
RStrip(s) ==
    IF s # <<>> /\ s[Len(s)] = "/" THEN RStrip(SubSeq(s, 1, Len(s) - 1)) ELSE s

Strip(s) == RStrip(LStrip(s))

\* str.rfind(c) as a 1-based index, 0 when absent
RFind(s, c) ==
    LET hits == {i \in 1..Len(s) : s[i] = c}
    IN  IF hits = {} THEN 0 ELSE CHOOSE i \in hits : \A j \in hits : j <= i

\* os.path.basename
Basename(p) == SubSeq(p, RFind(p, "/") + 1, Len(p))

\* os.path.splitext(p)[0]: the last dot starts the extension unless only dots
\* lie between the last separator and it
SplitextRoot(p) ==
    LET sepIndex == RFind(p, "/")
        dotIndex == RFind(p, ".")
    IN  IF /\ dotIndex > sepIndex
           /\ \E k \in (sepIndex + 1)..(dotIndex - 1) : p[k] # "."
        THEN SubSeq(p, 1, dotIndex - 1)
        ELSE p

Digit(d) ==
    CASE d = 0 -> "0" [] d = 1 -> "1" [] d = 2 -> "2" [] d = 3 -> "3"
      [] d = 4 -> "4" [] d = 5 -> "5" [] d = 6 -> "6" [] d = 7 -> "7"
      [] d = 8 -> "8" [] d = 9 -> "9"

\* str(n) for n >= 0, as an f-string formats it
RECURSIVE Dec(_)
Dec(n) == IF n < 10 THEN <<Digit(n)>> ELSE Dec(n \div 10) \o <<Digit(n % 10)>>

----------------------------------------------------------------------------
(* Inputs: what the PDF library, the codec and the bucket may answer *)

PageHeights == {-100, 0, 100, 200}

\* placement rectangles <<y0, y1>>: at a limit, across it, inside the band
Rects == {<<0, 15>>, <<0, 50>>, <<85, 100>>}

RECURSIVE SeqsUpTo(_, _)
SeqsUpTo(S, n) ==
    IF n = 0 THEN {<<>>}
    ELSE LET shorter == SeqsUpTo(S, n - 1)
         IN  shorter \cup {Append(q, x) : q \in {t \in shorter : Len(t) = n - 1}, x \in S}

RectLists == SeqsUpTo(Rects, MaxRects)

\* xref 0 is the invalid reference of line 71
Xrefs == {0, 1, 2}

ImageLists == SeqsUpTo(Xrefs, MaxImgs)

\* the ratio arguments a direct caller may pass (percent); -10 and 100 are invalid
RatioArgs == {<<15, 15>>, <<60, 60>>, <<-10, 100>>}

OpenOutcomes == {"ok", "RuntimeError", "Exception"}

LoadOutcomes == {"ok", "RuntimeError", "Exception"}

ExtractOutcomes ==
    {"extract_image_raises", "no_image_data", "decode_raises", "encode_raises",
     "upload_raises", "uploaded"}

NoEvent == [bucket |-> "", name |-> <<>>]

----------------------------------------------------------------------------
(* extract_images_from_pdf, lines 20-161 *)

\* lines 36-37: a ratio outside [0, 1) is replaced by 0.10
ValidRatio(r) == IF 0 <= r /\ r < 100 THEN r ELSE DEFAULT_RATIO

\* line 88: not (rect.y1 <= header_limit or rect.y0 >= footer_limit),
\* with header_limit = H * hr and footer_limit = H * (1.0 - fr)
InSkipZone(rect, H, hr, fr) ==
    \/ 100 * rect[2] <= H * hr
    \/ 100 * rect[1] >= H * (100 - fr)

\* mutant: one rectangle in a skip zone is enough to skip the image
IsPotentiallyHeaderFooter_Any(rects, H, hr, fr) ==
    /\ rects # <<>>
    /\ \E i \in 1..Len(rects) : InSkipZone(rects[i], H, hr, fr)

\* lines 83-92: the flag starts False, becomes True only when there are
\* rectangles, and is cleared by the first rectangle outside the skip zones
IsPotentiallyHeaderFooter(rects, H, hr, fr) ==
    /\ rects # <<>>
    /\ \A i \in 1..Len(rects) : InSkipZone(rects[i], H, hr, fr)

\* mutant: only duplicates are skipped, xref 0 is processed
SkipXref_DuplicatesOnly(x, seen) == x \in seen

\* line 71: skip invalid xref=0 and duplicates on the page
SkipXref(x, seen) == x = 0 \/ x \in seen

\* line 46
PdfFilenameBase(name) == SplitextRoot(Basename(name))

_page_ == <<"_","p","a","g","e","_">>

_img_ == <<"_","i","m","g","_">>

JpgExt == <<".","j","p","g">>

\* mutant: the output keeps the extension of the source object
FinalImageName_SourceExt(base, pnum, count) ==
    base \o _page_ \o Dec(pnum + 1) \o _img_ \o Dec(count + 1)
         \o <<".","p","d","f">>

\* line 132
FinalImageName(base, pnum, count) ==
    base \o _page_ \o Dec(pnum + 1) \o _img_ \o Dec(count + 1) \o JpgExt

\* line 133
FinalBlobPath(image_dir, name) == Strip(image_dir) \o <<"/">> \o name

\* mutant: the counter moves for every image that reaches the extraction
CountAfter_Always(outcome, count) == count + 1

\* line 139: the counter moves only after the upload returned
CountAfter(outcome, count) == IF outcome = "uploaded" THEN count + 1 ELSE count

\* line 156: "if pdf_document" is the truth value of the Document object,
\* which is its __len__, the page count
Truthy(handle, pages) == handle # "none" /\ pages > 0

\* lines 36-48: validate the ratios and open the document
OpenDocument ==
    /\ pc = "call"
    /\ header_ratio' = ValidRatio(header_ratio)
    /\ footer_ratio' = ValidRatio(footer_ratio)
    /\ \E outcome \in OpenOutcomes :
          IF outcome = "ok"
          THEN \E n \in 0..MaxPages :
                  /\ doc' = "open"
                  /\ page_count' = n
                  /\ pc' = "page_loop"
                  /\ err' = "none"
                  /\ last' = "opened"
          ELSE /\ doc' = "none"
               /\ page_count' = 0
               /\ pc' = "except"
               /\ err' = IF outcome = "RuntimeError" THEN "open_runtime"
                                                     ELSE "open_general"
               /\ last' = "open_failed"
    /\ image_count' = 0
    /\ skipped_header_footer' = 0
    /\ page_num' = 0
    /\ UNCHANGED <<pending, event, pdf_gcs_name, page_height,
                   image_list, image_index, processed_xrefs, xref,
                   image_rects, sink>>

\* lines 50-58: load the next page and read its height
PageStart ==
    /\ pc = "page_loop"
    /\ page_num < page_count
    /\ \E outcome \in LoadOutcomes :
          IF outcome = "ok"
          THEN \E h \in PageHeights :
                  /\ err' = err
                  /\ IF h <= 0
                     THEN /\ page_height' = 0
                          /\ page_num' = page_num + 1
                          /\ pc' = "page_loop"
                          /\ last' = "page_skipped_height"
                     ELSE /\ page_height' = h
                          /\ page_num' = page_num
                          /\ pc' = "get_images"
                          /\ last' = "page_loaded"
          ELSE /\ pc' = "except"
               /\ err' = IF outcome = "RuntimeError" THEN "page_runtime"
                                                     ELSE "page_general"
               /\ last' = "page_load_failed"
               /\ UNCHANGED <<page_height, page_num>>
    /\ UNCHANGED <<pending, event, pdf_gcs_name, header_ratio,
                   footer_ratio, doc, page_count, image_list, image_index,
                   processed_xrefs, xref, image_rects, image_count,
                   skipped_header_footer, sink>>

\* mutant: a failing image list is not caught at the page
GetImages_NoCatch ==
    /\ pc = "get_images"
    /\ \/ /\ pc' = "except"
          /\ err' = "page_general"
          /\ last' = "image_list_failed"
          /\ UNCHANGED <<page_num, page_height, image_list, image_index,
                         processed_xrefs>>
       \/ \E l \in ImageLists :
             /\ image_list' = l
             /\ image_index' = 0
             /\ processed_xrefs' = {}
             /\ pc' = "img_loop"
             /\ last' = "image_list"
             /\ err' = err
             /\ UNCHANGED <<page_num, page_height>>
    /\ UNCHANGED <<pending, event, pdf_gcs_name, header_ratio,
                   footer_ratio, doc, page_count, xref,
                   image_rects, image_count, skipped_header_footer, sink>>

\* lines 60-67: the page's image list; a failure skips the page
GetImages ==
    /\ pc = "get_images"
    /\ \/ /\ page_num' = page_num + 1
          /\ pc' = "page_loop"
          /\ last' = "page_skipped_list"
          /\ page_height' = 0
          /\ UNCHANGED <<image_list, image_index, processed_xrefs>>
       \/ \E l \in ImageLists :
             /\ image_list' = l
             /\ image_index' = 0
             /\ processed_xrefs' = {}
             /\ pc' = "img_loop"
             /\ last' = "image_list"
             /\ page_num' = page_num
             /\ page_height' = page_height
    /\ UNCHANGED <<pending, event, pdf_gcs_name, header_ratio,
                   footer_ratio, doc, page_count, xref,
                   image_rects, image_count, skipped_header_footer, sink, err>>

\* lines 69-75: next entry of the image list, or the end of the page.
\* page_height, image_list, image_index, xref and image_rects are assigned
\* afresh (lines 52, 60, 69, 70, 75) before they are read again, so a step
\* that leaves the page body or ends an extraction holds their initial
\* values instead of the stale ones.  processed_xrefs is left as the code
\* leaves it: only line 67 empties it.
NextImage ==
    /\ pc = "img_loop"
    /\ IF image_index = Len(image_list)
       THEN /\ page_num' = page_num + 1
            /\ pc' = "page_loop"
            /\ last' = "page_done"
            /\ page_height' = 0
            /\ image_list' = <<>>
            /\ image_index' = 0
            /\ xref' = 0
       ELSE /\ xref' = image_list[image_index + 1]
            /\ page_num' = page_num
            /\ UNCHANGED <<page_height, image_list>>
            /\ IF SkipXref(image_list[image_index + 1], processed_xrefs)
               THEN /\ image_index' = image_index + 1
                    /\ pc' = "img_loop"
                    /\ last' = IF image_list[image_index + 1] = 0
                               THEN "xref_zero" ELSE "xref_duplicate"
               ELSE /\ image_index' = image_index
                    /\ pc' = "get_rects"
                    /\ last' = "xref_new"
    /\ image_rects' = <<>>
    /\ UNCHANGED <<pending, event, pdf_gcs_name, header_ratio,
                   footer_ratio, doc, page_count, processed_xrefs,
                   image_count, skipped_header_footer, sink, err>>

\* mutant: an image whose rectangles cannot be read is dropped
GetImageRects_SkipOnError ==
    /\ pc = "get_rects"
    /\ \/ /\ image_rects' = <<>>
          /\ image_index' = image_index + 1
          /\ pc' = "img_loop"
          /\ last' = "rects_raised"
       \/ \E r \in RectLists :
             /\ image_rects' = r
             /\ image_index' = image_index
             /\ pc' = "filter"
             /\ last' = "rects"
    /\ UNCHANGED <<pending, event, pdf_gcs_name, header_ratio,
                   footer_ratio, doc, page_count, page_num, page_height,
                   image_list, processed_xrefs, xref,
                   image_count, skipped_header_footer, sink, err>>

\* lines 75-81: the placement rectangles; a failure leaves the list empty
GetImageRects ==
    /\ pc = "get_rects"
    /\ \/ /\ image_rects' = <<>>
          /\ last' = "rects_raised"
       \/ \E r \in RectLists :
             /\ image_rects' = r
             /\ last' = "rects"
    /\ pc' = "filter"
    /\ UNCHANGED <<pending, event, pdf_gcs_name, header_ratio,
                   footer_ratio, doc, page_count, page_num, page_height,
                   image_list, image_index, processed_xrefs, xref,
                   image_count, skipped_header_footer, sink, err>>

\* lines 83-99: the header/footer filter
HeaderFooterFilter ==
    /\ pc = "filter"
    /\ processed_xrefs' = processed_xrefs \cup {xref}
    /\ IF /\ IsPotentiallyHeaderFooter(image_rects, page_height,
                                       header_ratio, footer_ratio)
          /\ image_rects # <<>>
       THEN /\ skipped_header_footer' = skipped_header_footer + 1
            /\ image_index' = image_index + 1
            /\ pc' = "img_loop"
            /\ last' = "header_footer_skip"
       ELSE /\ skipped_header_footer' = skipped_header_footer
            /\ image_index' = image_index
            /\ pc' = "extract"
            /\ last' = "kept"
    /\ UNCHANGED <<pending, event, pdf_gcs_name, header_ratio,
                   footer_ratio, doc, page_count, page_num, page_height,
                   image_list, xref, image_rects, image_count, sink, err>>

ExtractFailures ==
    {"extract_image_raises", "decode_raises", "encode_raises", "upload_raises"}

\* mutant: a failing image is not caught at the image
ExtractImage_NoCatch ==
    /\ pc = "extract"
    /\ \E outcome \in ExtractOutcomes :
          /\ sink' = IF outcome = "uploaded"
                     THEN Append(sink,
                            [key |-> FinalBlobPath(OUTPUT_IMAGE_DIR,
                                        FinalImageName(PdfFilenameBase(pdf_gcs_name),
                                                       page_num, image_count)),
                             ev |-> event])
                     ELSE sink
          /\ pending' = IF outcome = "uploaded"
                        THEN pending \cup
                             {[bucket |-> OUTPUT_BUCKET_NAME,
                               name |-> FinalBlobPath(OUTPUT_IMAGE_DIR,
                                          FinalImageName(PdfFilenameBase(pdf_gcs_name),
                                                         page_num, image_count))]}
                        ELSE pending
          /\ image_count' = CountAfter(outcome, image_count)
          /\ last' = outcome
          /\ IF outcome \in ExtractFailures
             THEN /\ pc' = "except"
                  /\ err' = "page_general"
                  /\ image_index' = image_index
             ELSE /\ pc' = "img_loop"
                  /\ err' = err
                  /\ image_index' = image_index + 1
    /\ image_rects' = <<>>
    /\ UNCHANGED <<event, pdf_gcs_name, header_ratio, footer_ratio,
                   doc, page_count, page_num, page_height, image_list,
                   processed_xrefs, xref, skipped_header_footer>>

\* lines 100-144: fetch, decode, re-encode, upload; any failure is caught
ExtractImage ==
    /\ pc = "extract"
    /\ \E outcome \in ExtractOutcomes :
          /\ sink' = IF outcome = "uploaded"
                     THEN Append(sink,
                            [key |-> FinalBlobPath(OUTPUT_IMAGE_DIR,
                                        FinalImageName(PdfFilenameBase(pdf_gcs_name),
                                                       page_num, image_count)),
                             ev |-> event])
                     ELSE sink
          /\ pending' = IF outcome = "uploaded"
                        THEN pending \cup
                             {[bucket |-> OUTPUT_BUCKET_NAME,
                               name |-> FinalBlobPath(OUTPUT_IMAGE_DIR,
                                          FinalImageName(PdfFilenameBase(pdf_gcs_name),
                                                         page_num, image_count))]}
                        ELSE pending
          /\ image_count' = CountAfter(outcome, image_count)
          /\ last' = outcome
    /\ image_index' = image_index + 1
    /\ image_rects' = <<>>
    /\ pc' = "img_loop"
    /\ UNCHANGED <<event, pdf_gcs_name, header_ratio, footer_ratio,
                   doc, page_count, page_num, page_height, image_list,
                   processed_xrefs, xref, skipped_header_footer, err>>

\* lines 146-147: the summary after the last page
Summary ==
    /\ pc = "page_loop"
    /\ page_num = page_count
    /\ pc' = "finally"
    /\ last' = "summary"
    /\ UNCHANGED <<pending, event, pdf_gcs_name, header_ratio,
                   footer_ratio, doc, page_count, page_num, page_height,
                   image_list, image_index, processed_xrefs, xref,
                   image_rects, image_count, skipped_header_footer, sink, err>>

\* mutant: the handlers log and raise again
ExceptHandler_Reraise ==
    /\ pc = "except"
    /\ pc' = "raised"
    /\ last' = "logged"
    /\ UNCHANGED <<pending, event, pdf_gcs_name, header_ratio,
                   footer_ratio, doc, page_count, page_num, page_height,
                   image_list, image_index, processed_xrefs, xref,
                   image_rects, image_count, skipped_header_footer, sink, err>>

\* lines 149-153: both handlers log and fall through to the finally block
ExceptHandler ==
    /\ pc = "except"
    /\ pc' = "finally"
    /\ last' = "logged"
    /\ UNCHANGED <<pending, event, pdf_gcs_name, header_ratio,
                   footer_ratio, doc, page_count, page_num, page_height,
                   image_list, image_index, processed_xrefs, xref,
                   image_rects, image_count, skipped_header_footer, sink, err>>

\* lines 154-161: close the document if "pdf_document" is true
Finally ==
    /\ pc = "finally"
    /\ doc' = IF Truthy(doc, page_count) THEN "closed" ELSE doc
    /\ pc' = "returned"
    /\ last' = "finally"
    /\ UNCHANGED <<pending, event, pdf_gcs_name, header_ratio,
                   footer_ratio, page_count, page_num, page_height,
                   image_list, image_index, processed_xrefs, xref,
                   image_rects, image_count, skipped_header_footer, sink, err>>

Extractor ==
    \/ OpenDocument
    \/ PageStart
    \/ GetImages
    \/ NextImage
    \/ GetImageRects
    \/ HeaderFooterFilter
    \/ ExtractImage
    \/ Summary
    \/ ExceptHandler
    \/ Finally

----------------------------------------------------------------------------
(* A direct call of extract_images_from_pdf with arbitrary arguments *)

DirectNames ==
    { <<"d","o","c","s","/","a",".","p","d","f">>,
      <<"r","e","p","o","r","t",".","P","D","F">> }

InitExtract ==
    /\ pc = "call"
    /\ pending = {}
    /\ event = NoEvent
    /\ pdf_gcs_name \in DirectNames
    /\ \E r \in RatioArgs : header_ratio = r[1] /\ footer_ratio = r[2]
    /\ doc = "none"
    /\ page_count = 0
    /\ page_num = 0
    /\ page_height = 0
    /\ image_list = <<>>
    /\ image_index = 0
    /\ processed_xrefs = {}
    /\ xref = 0
    /\ image_rects = <<>>
    /\ image_count = 0
    /\ skipped_header_footer = 0
    /\ sink = <<>>
    /\ err = "none"
    /\ last = "none"

NextExtract == Extractor

SpecExtract == InitExtract /\ [][NextExtract]_vars

----------------------------------------------------------------------------
(* extract_images_from_pdf_gcs_trigger, lines 166-255 *)

PdfExt == <<".","p","d","f">>

\* mutant: the extension is compared without lower()
IsPdfName_CaseSensitive(name) == name # <<>> /\ EndsWith(name, PdfExt)

\* line 195: not input_file_name or not input_file_name.lower().endswith(".pdf")
IsPdfName(name) == name # <<>> /\ EndsWith(Lower(name), PdfExt)

\* lines 200-203: same bucket as the output, and under the output directory
InOutputDir(bucket, name) ==
    /\ bucket = OUTPUT_BUCKET_NAME
    /\ StartsWith(name, Strip(OUTPUT_IMAGE_DIR) \o <<"/">>)

\* lines 179-205: the payload keys, then the two validation checks in order
Validate(e) ==
    IF ~({"bucket", "name"} \subseteq DOMAIN e) THEN "key_error"
    ELSE IF ~IsPdfName(e.name) THEN "ignored_not_pdf"
    ELSE IF InOutputDir(e.bucket, e.name) THEN "ignored_output_dir"
    ELSE "accepted"

ClientOutcomes == {"ok", "NotFound"}

DownloadOutcomes == {"ok", "NotFound", "Exception"}

\* the object-creation events an uploader may cause
ExternalEvents ==
    { [bucket |-> "inbox", name |-> <<"r","e","p","o","r","t",".","P","D","F">>],
      [bucket |-> OUTPUT_BUCKET_NAME,
       name |-> <<"d","o","c","s","/","a",".","p","d","f">>],
      [bucket |-> "inbox", name |-> OUTPUT_IMAGE_DIR \o <<"/","f","o","o",".","p","d","f">>],
      [bucket |-> OUTPUT_BUCKET_NAME,
       name |-> OUTPUT_IMAGE_DIR \o <<"/","f","o","o",".","p","d","f">>],
      [bucket |-> "inbox", name |-> <<"n","o","t","e","s",".","t","x","t">>],
      [bucket |-> OUTPUT_BUCKET_NAME, name |-> <<"p","d","f">>],
      [bucket |-> "inbox", name |-> <<>>],
      [bucket |-> "inbox"] }

\* lines 173-211: read the payload, validate, create the clients
TriggerValidate ==
    /\ pc = "idle"
    /\ \E e \in pending :
          /\ pending' = pending \ {e}
          /\ event' = e
          /\ IF Validate(e) # "accepted"
             THEN /\ pc' = "idle"
                  /\ last' = Validate(e)
             ELSE \E outcome \in ClientOutcomes :
                     IF outcome = "ok"
                     THEN /\ pc' = "download"
                          /\ last' = "accepted"
                     ELSE /\ pc' = "idle"
                          /\ last' = "bucket_not_found"
    /\ UNCHANGED <<pdf_gcs_name, header_ratio, footer_ratio, doc, page_count,
                   page_num, page_height, image_list, image_index,
                   processed_xrefs, xref, image_rects, image_count,
                   skipped_header_footer, sink, err>>

\* lines 213-232: fetch the object and call the extractor on its bytes
Download ==
    /\ pc = "download"
    /\ \E outcome \in DownloadOutcomes :
          IF outcome = "ok"
          THEN /\ pc' = "call"
               /\ pdf_gcs_name' = event.name
               /\ header_ratio' = HEADER_RATIO
               /\ footer_ratio' = FOOTER_RATIO
               /\ last' = "downloaded"
          ELSE /\ pc' = "idle"
               /\ last' = "download_failed"
               /\ UNCHANGED <<pdf_gcs_name, header_ratio, footer_ratio>>
    /\ UNCHANGED <<pending, event, doc, page_count, page_num, page_height,
                   image_list, image_index, processed_xrefs, xref,
                   image_rects, image_count, skipped_header_footer, sink, err>>

\* lines 234-246: the extractor returned; its locals are gone
TriggerReturn ==
    /\ pc = "returned"
    /\ event # NoEvent
    /\ pc' = "idle"
    /\ last' = "finished"
    /\ pdf_gcs_name' = <<>>
    /\ header_ratio' = 0
    /\ footer_ratio' = 0
    /\ doc' = "none"
    /\ page_count' = 0
    /\ page_num' = 0
    /\ page_height' = 0
    /\ image_list' = <<>>
    /\ image_index' = 0
    /\ processed_xrefs' = {}
    /\ xref' = 0
    /\ image_rects' = <<>>
    /\ image_count' = 0
    /\ skipped_header_footer' = 0
    /\ err' = "none"
    /\ UNCHANGED <<pending, event, sink>>

Init ==
    /\ pc = "idle"
    /\ pending \in {{e} : e \in ExternalEvents}
    /\ event = NoEvent
    /\ pdf_gcs_name = <<>>
    /\ header_ratio = 0
    /\ footer_ratio = 0
    /\ doc = "none"
    /\ page_count = 0
    /\ page_num = 0
    /\ page_height = 0
    /\ image_list = <<>>
    /\ image_index = 0
    /\ processed_xrefs = {}
    /\ xref = 0
    /\ image_rects = <<>>
    /\ image_count = 0
    /\ skipped_header_footer = 0
    /\ sink = <<>>
    /\ err = "none"
    /\ last = "none"

Next ==
    \/ TriggerValidate
    \/ Download
    \/ Extractor
    \/ TriggerReturn

Spec == Init /\ [][Next]_vars

\* The trigger deployed on the output bucket itself: the only bucket whose
\* creation events include those of the extractor's own objects.
ChainEvents ==
    {e \in ExternalEvents : "bucket" \in DOMAIN e /\ e.bucket = OUTPUT_BUCKET_NAME}

InitChain == Init /\ pending \in {{e} : e \in ChainEvents}

\* every dispatched event is handled to its end, and every pending event is
\* dispatched: the runtime runs an invocation per event
FairSpec == InitChain /\ [][Next]_vars /\ WF_vars(Next)

----------------------------------------------------------------------------
(* Header/footer filter *)

\* the rectangle lies entirely above H*hr or entirely below H*(1-fr)
OutsideContentBand(rect) ==
    \/ 100 * rect[2] <= page_height * header_ratio
    \/ 100 * rect[1] >= page_height * (100 - footer_ratio)

EveryRectOutsideContentBand ==
    \A i \in 1..Len(image_rects) : OutsideContentBand(image_rects[i])

\* C1: for a page of height H > 0 and ratios in [0,1), a non-zero, not yet
\* seen reference with a non-empty list of rectangles is skipped as
\* header/footer (counted, not extracted) if and only if every rectangle has
\* y1 <= H*hr or y0 >= H*(1-fr); otherwise it is kept and goes to extraction.
C1_SkippedIffEveryRectOutside ==
    [][ ( /\ pc = "filter"
          /\ image_rects # <<>>
          /\ page_height > 0
          /\ header_ratio \in 0..99 /\ footer_ratio \in 0..99
          /\ xref # 0 /\ xref \notin processed_xrefs )
        => IF EveryRectOutsideContentBand
           THEN /\ skipped_header_footer' = skipped_header_footer + 1
                /\ image_count' = image_count
                /\ sink' = sink
                /\ pc' = "img_loop"
                /\ image_index' = image_index + 1
           ELSE /\ skipped_header_footer' = skipped_header_footer
                /\ pc' = "extract"
                /\ image_index' = image_index ]_vars

\* a reference with one placement in the header zone and one in the content
\* band was kept, after another reference was skipped
C1_Witness ==
    /\ last = "kept"
    /\ pc = "extract"
    /\ skipped_header_footer >= 1
    /\ Len(image_rects) = 2
    /\ OutsideContentBand(image_rects[1])
    /\ ~OutsideContentBand(image_rects[2])

\* C3: a reference with no retrievable placement rectangles (the query
\* raises, or returns an empty list) is never skipped by the filter: no
\* header/footer skip is counted and it goes on to the extraction step.
C3_NoRectsNeverSkipped ==
    /\ [][ (pc = "get_rects" /\ image_rects' = <<>>)
           => /\ pc' = "filter"
              /\ image_index' = image_index
              /\ skipped_header_footer' = skipped_header_footer ]_vars
    /\ [][ (pc = "filter" /\ image_rects = <<>>)
           => /\ pc' = "extract"
              /\ image_index' = image_index
              /\ skipped_header_footer' = skipped_header_footer ]_vars

\* a reference without rectangles reached the extraction step
C3_Witness ==
    /\ pc = "extract"
    /\ last = "kept"
    /\ image_rects = <<>>
    /\ skipped_header_footer = 0

----------------------------------------------------------------------------
(* Document handle *)

\* C2: the document handle is released before extract_images_from_pdf
\* returns, on every exit path, for a successfully opened document of any
\* page count.
C2_HandleReleasedOnReturn == pc = "returned" => doc # "open"

----------------------------------------------------------------------------
(* Running counter and output names *)

\* C4: the running counter never resets between pages and moves by exactly
\* one on each image written to the sink and on nothing else, so the names
\* of the images written for one document are pairwise distinct.
C4_CounterCountsWrites ==
    /\ [](/\ image_count = Len(sink)
          /\ \A i, j \in 1..Len(sink) : i # j => sink[i].key # sink[j].key)
    /\ [][ \/ image_count' = image_count /\ sink' = sink
           \/ /\ pc = "extract"
              /\ image_count' = image_count + 1
              /\ Len(sink') = Len(sink) + 1
              /\ SubSeq(sink', 1, Len(sink)) = sink ]_vars

\* an image was written on the second page after one on the first page,
\* with a header/footer skip in between that left the counter alone
C4_Witness ==
    /\ last = "uploaded"
    /\ page_num = 1
    /\ image_count = 2
    /\ skipped_header_footer >= 1
    /\ sink[1].key = FinalBlobPath(OUTPUT_IMAGE_DIR,
                        FinalImageName(PdfFilenameBase(pdf_gcs_name), 0, 0))

----------------------------------------------------------------------------
(* Per-page deduplication *)

SeenBefore == {image_list[i] : i \in 1..image_index}

\* C6: within a page each distinct reference identifier is processed at most
\* once however often it occurs in the image list, identifier 0 is always
\* skipped (never extracted, never counted as a header/footer skip), and the
\* seen-set is emptied for each page.
C6_ProcessedAtMostOnce ==
    /\ [](pc \in {"get_rects", "filter", "extract"}
            => /\ xref = image_list[image_index + 1]
               /\ xref # 0
               /\ xref \notin SeenBefore)
    /\ [](pc = "img_loop" => processed_xrefs = SeenBefore \ {0})
    /\ [][ ( /\ pc = "img_loop"
             /\ image_index < Len(image_list)
             /\ \/ image_list[image_index + 1] = 0
                \/ image_list[image_index + 1] \in SeenBefore )
           => /\ pc' = "img_loop"
              /\ image_index' = image_index + 1
              /\ UNCHANGED <<processed_xrefs, image_count,
                             skipped_header_footer, sink>> ]_vars
    /\ [][ (pc = "get_images" /\ pc' = "img_loop")
           => processed_xrefs' = {} ]_vars

\* on the second page, the second occurrence of an identifier was passed
\* over after its first occurrence was written, as it was on the first page
C6_Witness ==
    /\ page_num = 1
    /\ last = "xref_duplicate"
    /\ image_list = <<1, 1>>
    /\ image_index = 2
    /\ image_count = 2

----------------------------------------------------------------------------
(* Error containment *)

\* C7: a failure while fetching, decoding, re-encoding or writing one image
\* is contained to that reference: nothing is counted as written for it and
\* processing goes on with the next reference of the same page; neither the
\* page nor the document is aborted.
C7_ImageFailureContained ==
    [][ pc = "extract"
        => /\ pc' = "img_loop"
           /\ image_index' = image_index + 1
           /\ UNCHANGED <<page_num, page_count, image_list, doc, err>>
           /\ last' \in ExtractFailures
                 => image_count' = image_count /\ sink' = sink ]_vars

\* an upload failed on the first page of two with another reference left on
\* the page, and nothing was counted
C7_Witness ==
    /\ last = "upload_raises"
    /\ pc = "img_loop"
    /\ image_index < Len(image_list)
    /\ page_num = 0
    /\ page_count = 2
    /\ image_count = 0
    /\ err = "none"

----------------------------------------------------------------------------
(* Validation gate of the trigger *)

\* the object name ends in ".pdf", compared case-insensitively, and the
\* event is not one of the output bucket under the output directory
EndsInPdfIgnoringCase(name) ==
    /\ Len(name) >= 4
    /\ LowerChar(name[Len(name) - 3]) = "."
    /\ LowerChar(name[Len(name) - 2]) = "p"
    /\ LowerChar(name[Len(name) - 1]) = "d"
    /\ LowerChar(name[Len(name)]) = "f"

UnderOutputDir(e) ==
    /\ e.bucket = OUTPUT_BUCKET_NAME
    /\ Len(e.name) > Len(OUTPUT_IMAGE_DIR)
    /\ \A i \in 1..Len(OUTPUT_IMAGE_DIR) : e.name[i] = OUTPUT_IMAGE_DIR[i]
    /\ e.name[Len(OUTPUT_IMAGE_DIR) + 1] = "/"

MayBeProcessed(e) ==
    /\ {"bucket", "name"} \subseteq DOMAIN e
    /\ EndsInPdfIgnoringCase(e.name)
    /\ ~UnderOutputDir(e)

\* C5: an event is accepted for processing only if its object name ends in
\* ".pdf" compared case-insensitively and it is not an object of the output
\* bucket under the output directory; every other event is ignored without
\* fetching the object, without calling the extractor, with no image written.
C5_GateAcceptsOnlyPdfOutsideOutput ==
    /\ [](pc # "idle" => MayBeProcessed(event))
    /\ [](\A i \in 1..Len(sink) : MayBeProcessed(sink[i].ev))
    /\ [](last \in {"ignored_not_pdf", "ignored_output_dir", "key_error"}
            => pc = "idle" /\ ~MayBeProcessed(event))
    /\ [](last \in {"accepted", "bucket_not_found"} => MayBeProcessed(event))
    /\ [][ (pc = "idle" /\ ~MayBeProcessed(event'))
           => pc' = "idle" /\ sink' = sink /\ image_count' = image_count ]_vars

\* report.PDF was accepted and an image of it written; the event of that
\* image has then been ignored
C5_Witness ==
    /\ last = "ignored_not_pdf"
    /\ Len(sink) >= 1
    /\ sink[1].ev = [bucket |-> "inbox",
                     name |-> <<"r","e","p","o","r","t",".","P","D","F">>]

----------------------------------------------------------------------------
(* Objects written by the extractor never start another extraction *)

CreationEventOf(key) == [bucket |-> OUTPUT_BUCKET_NAME, name |-> key]

Quiescent == pc = "idle" /\ pending = {}

\* C10: every object the extractor writes has the key
\* {dir}/{base}_page_{N}_img_{M}.jpg, N the 1-based page number and M the
\* counter plus one, so its creation event is ignored by the validation gate
\* because the name does not end in ".pdf"; the events of the system's own
\* output cause no further writes and the chain of invocations ends.
C10_OwnOutputNeverReprocessed ==
    /\ [][ sink' # sink
           => /\ sink' = Append(sink, sink'[Len(sink')])
              /\ sink'[Len(sink')].key =
                    OUTPUT_IMAGE_DIR \o <<"/">> \o PdfFilenameBase(pdf_gcs_name)
                      \o <<"_","p","a","g","e","_">> \o Dec(page_num + 1)
                      \o <<"_","i","m","g","_">> \o Dec(image_count + 1)
                      \o <<".","j","p","g">>
              /\ CreationEventOf(sink'[Len(sink')].key) \in pending' ]_vars
    /\ [](\A i \in 1..Len(sink) :
             /\ ~EndsInPdfIgnoringCase(sink[i].key)
             /\ Validate(CreationEventOf(sink[i].key)) = "ignored_not_pdf")
    /\ [](pc # "idle" => \A i \in 1..Len(sink) : event # CreationEventOf(sink[i].key))
    /\ <>[]Quiescent

\* a PDF uploaded to the output bucket itself was extracted, and the
\* creation event of one of its images has been ignored
C10_Witness ==
    /\ last = "ignored_not_pdf"
    /\ pc = "idle"
    /\ Len(sink) >= 1
    /\ sink[1].ev.bucket = OUTPUT_BUCKET_NAME
    /\ event = CreationEventOf(sink[1].key)

====
